---- MODULE Spec2Model ----
(***************************************************************************)
(* Model of the meeting scheduler of precision-msc-scheduler:              *)
(*   src/app/scheduler.py  resolve_request, request_specificity,           *)
(*                         build_random_timeslot_index,                    *)
(*                         _find_balanced_timeslot, run_scheduler          *)
(*   src/app.py            attach_substitutions, main                      *)
(* A behaviour of Spec or SpecContention is one invocation of run_scheduler *)
(* on inputs drawn by its initial predicate, a behaviour of SpecResolve one *)
(* call of resolve_request, a behaviour of SpecPair two invocations of      *)
(* run_scheduler whose steps interleave.                                    *)
(* Text values that run_scheduler strips (request strings, rep             *)
(* names, category values) are sequences of tokens, the token " " being    *)
(* white space, so that str(request).strip() is computed, not assumed.     *)
(***************************************************************************)
EXTENDS Integers, Sequences, FiniteSets, TLC

VARIABLES
    suppliers_df,            \* input: rows [Supplier, Booth, Type], caller's order
    reps_df,                 \* input: rows of the rep table
    preferences,             \* input: supplier name -> list of request strings
    max_meetings_rep,        \* input: per-rep cap
    max_peak,                \* input: cap of a Peak supplier
    max_acc,                 \* input: cap of an Accelerating supplier
    time_slots,              \* app.utils.time_slots: the calendar
    rep_avail,               \* rep -> day -> slot -> BOOLEAN
    rep_timeslot_order,      \* rep -> day -> shuffled list of slots
    rep_meeting_count,       \* rep -> number of meetings
    supplier_meeting_count,  \* supplier -> number of meetings (grows per supplier)
    supplier_rows,           \* list of meetings, supplier-indexed rows
    rep_rows,                \* list of meetings, rep-indexed rows
    supplier_summary,        \* supplier -> [requested, fulfilled, category_counts]
    ordered_suppliers,       \* suppliers_df copy with Specificity, sorted
    supplier_day_start_index,\* supplier -> rotation start
    pc,                      \* position of run_scheduler
    si,                      \* index of the supplier loop in ordered_suppliers
    ri,                      \* index of the request loop in req_list
    result,                  \* the returned tuple, or the raised exception
    row_request,             \* history: the request string behind each meeting
    iter_log,                \* history: one entry per step of the request loop
    request_arg,             \* input of a direct call of resolve_request
    frames                   \* the locals of each of two invocations run side by side

vars == <<suppliers_df, reps_df, preferences, max_meetings_rep, max_peak, max_acc,
          time_slots, rep_avail, rep_timeslot_order, rep_meeting_count,
          supplier_meeting_count, supplier_rows, rep_rows, supplier_summary,
          ordered_suppliers, supplier_day_start_index, pc, si, ri, result,
          row_request, iter_log, request_arg, frames>>

inputs == <<suppliers_df, reps_df, preferences, max_meetings_rep, max_peak, max_acc,
            time_slots, request_arg>>

----------------------------------------------------------------------------
(* Bounds of the model *)

\* total number of request strings over all suppliers' preference lists (one more
\* under InitContention)
MaxReqs == 2

\* largest value of a cap
MaxCap == 2

\* largest number of rows of a rep table drawn for a direct call of resolve_request
MaxRows == 2

----------------------------------------------------------------------------
(* Sequence helpers *)

Range(s) == {s[i] : i \in DOMAIN s}

Perms(S) == {p \in [1..Cardinality(S) -> S] : \A i, j \in 1..Cardinality(S) : p[i] = p[j] => i = j}

SeqPerms(s) == {[i \in DOMAIN s |-> s[p[i]]] : p \in Perms(DOMAIN s)}

RECURSIVE SeqsUpTo(_, _)
SeqsUpTo(S, n) ==
    IF n = 0 THEN {<<>>}
    ELSE LET shorter == SeqsUpTo(S, n - 1)
         IN shorter \cup {Append(s, x) : s \in {t \in shorter : Len(t) = n - 1}, x \in S}

\* the entries of a list without repetition, in order of first occurrence
RECURSIVE Dedupe(_)
Dedupe(s) ==
    IF s = <<>> THEN <<>>
    ELSE LET init == Dedupe(SubSeq(s, 1, Len(s) - 1))
         IN IF s[Len(s)] \in Range(init) THEN init ELSE Append(init, s[Len(s)])

\* lexicographic order of two integer tuples of the same length
LexLess(a, b) ==
    \E i \in DOMAIN a : a[i] < b[i] /\ \A j \in 1..(i - 1) : a[j] = b[j]

\* stable sort of a list of [k |-> integer tuple, v |-> row] by k
RECURSIVE InsertKeyed(_, _)
InsertKeyed(x, s) ==
    IF s = <<>> THEN <<x>>
    ELSE IF LexLess(x.k, Head(s).k) THEN <<x>> \o s
    ELSE <<Head(s)>> \o InsertKeyed(x, Tail(s))

RECURSIVE SortKeyed(_)
SortKeyed(s) ==
    IF s = <<>> THEN <<>>
    ELSE InsertKeyed(s[Len(s)], SortKeyed(SubSeq(s, 1, Len(s) - 1)))

Values(s) == [i \in DOMAIN s |-> s[i].v]

----------------------------------------------------------------------------
(* Text: str.strip() *)

RECURSIVE LStrip(_)
LStrip(s) == IF s # <<>> /\ Head(s) = " " THEN LStrip(Tail(s)) ELSE s

RECURSIVE RStrip(_)
RStrip(s) == IF s # <<>> /\ s[Len(s)] = " " THEN RStrip(SubSeq(s, 1, Len(s) - 1)) ELSE s

Strip(s) == RStrip(LStrip(s))

----------------------------------------------------------------------------
(* Inputs *)

\* the rep table: the columns run_scheduler and resolve_request read
RepsTable ==
    << [SalesRep |-> <<"Ann">>, Category |-> <<"East">>, Subcategory |-> <<"Metal">>,
        CatRank |-> 1, SubcatRank |-> 2],
       [SalesRep |-> <<"Bob">>, Category |-> <<"East">>, Subcategory |-> <<"Metal">>,
        CatRank |-> 2, SubcatRank |-> 1] >>

\* leadership tier, region and segment of each rep (the substitution hierarchy)
LeaderInfo ==
    [n \in {<<"Ann">>, <<"Bob">>} |->
        IF n = <<"Ann">> THEN [Tier |-> "Key", Region |-> "NE", Segment |-> "SegA"]
        ELSE [Tier |-> "Region", Region |-> "NE", Segment |-> "SegA"]]

\* the supplier list without the Type column
SupplierTable ==
    << [Supplier |-> "Acme", Booth |-> "B1"], [Supplier |-> "Bolt", Booth |-> "B2"] >>

SupplierTypes == {"Peak", "Accelerating"}

SupplierNames == {SupplierTable[i].Supplier : i \in DOMAIN SupplierTable}

\* raw request strings: a rep name, a padded sub-category, a category, no match
RequestStrings ==
    {<<"Ann">>, <<" ", "Metal">>, <<"East">>, <<"Nobody">>}

RECURSIVE TotalLen(_, _)
TotalLen(f, S) ==
    IF S = {} THEN 0
    ELSE LET x == CHOOSE y \in S : TRUE IN Len(f[x]) + TotalLen(f, S \ {x})

PreferenceChoices ==
    {f \in [SupplierNames -> SeqsUpTo(RequestStrings, MaxReqs + 1)] :
        TotalLen(f, SupplierNames) <= MaxReqs + 1}

\* the caps: each cap takes every value of 0..MaxCap while the others are MaxCap
CapChoices ==
    {c \in [rep : 0..MaxCap, peak : 0..MaxCap, acc : 0..MaxCap] :
        Cardinality({x \in {"rep", "peak", "acc"} : c[x] < MaxCap}) <= 1}

\* calendars: ordered days, each an ordered list of slots tagged None, LUNCH or BREAK
CalOneOpen ==
    << [day |-> "Day 1", slots |-> << [slot |-> "09:00", state |-> "None"],
                                      [slot |-> "12:00", state |-> "LUNCH"] >>] >>

CalTwoOpen ==
    << [day |-> "Day 1", slots |-> << [slot |-> "09:00", state |-> "None"],
                                      [slot |-> "10:00", state |-> "BREAK"],
                                      [slot |-> "11:00", state |-> "None"] >>] >>

CalTwoDays ==
    << [day |-> "Day 1", slots |-> << [slot |-> "09:00", state |-> "None"],
                                      [slot |-> "12:00", state |-> "LUNCH"] >>],
       [day |-> "Day 2", slots |-> << [slot |-> "09:00", state |-> "BREAK"],
                                      [slot |-> "10:00", state |-> "None"] >>] >>

Calendars == {CalOneOpen, CalTwoOpen, CalTwoDays}

FullCaps == [rep |-> MaxCap, peak |-> MaxCap, acc |-> MaxCap]

\* the inputs of Init: every calendar under the largest caps, and every choice of caps
\* on the two-day calendar
InputChoice(prefs, caps, ts) ==
    /\ TotalLen(prefs, SupplierNames) <= MaxReqs
    /\ caps = FullCaps \/ ts = CalTwoDays

\* the inputs of InitContention: one more request, under the largest caps, on the
\* calendar whose day has two open slots to shuffle
ContentionChoice(prefs, caps, ts) == caps = FullCaps /\ ts = CalTwoOpen

----------------------------------------------------------------------------
(* Calendar access: time_slots is a dict day -> dict slot -> state *)

DayKeys(ts) == [i \in DOMAIN ts |-> ts[i].day]

DayEntry(ts, day) == CHOOSE e \in Range(ts) : e.day = day

SlotKeys(ts, day) ==
    LET sl == DayEntry(ts, day).slots IN [i \in DOMAIN sl |-> sl[i].slot]

SlotState(ts, day, slot) ==
    (CHOOSE e \in Range(DayEntry(ts, day).slots) : e.slot = slot).state

RepNames(reps) == {reps[i].SalesRep : i \in DOMAIN reps}

----------------------------------------------------------------------------
(* resolve_request, request_specificity *)

NoCandidates == <<>>

SortValues(rows, field) ==
    Values(SortKeyed([i \in DOMAIN rows |-> [k |-> <<rows[i][field]>>, v |-> rows[i]]]))

\* mutant: the sub-category match is tried before the rep name
resolve_request_SubcatFirst(request, reps) ==
    LET req == Strip(request)
        exact == SelectSeq(reps, LAMBDA r : r.SalesRep = req)
        sub == SelectSeq(reps, LAMBDA r : r.Subcategory = req)
        cat == SelectSeq(reps, LAMBDA r : r.Category = req)
    IN IF Len(sub) > 0
       THEN [candidates |-> SortValues(sub, "SubcatRank"), rtype |-> "subcat"]
       ELSE IF Len(exact) > 0 THEN [candidates |-> exact, rtype |-> "rep"]
       ELSE IF Len(cat) > 0
            THEN [candidates |-> SortValues(cat, "CatRank"), rtype |-> "category"]
       ELSE [candidates |-> NoCandidates, rtype |-> "none"]

resolve_request(request, reps) ==
    LET req == Strip(request)
        exact == SelectSeq(reps, LAMBDA r : r.SalesRep = req)
        sub == SelectSeq(reps, LAMBDA r : r.Subcategory = req)
        cat == SelectSeq(reps, LAMBDA r : r.Category = req)
    IN IF Len(exact) > 0 THEN [candidates |-> exact, rtype |-> "rep"]
       ELSE IF Len(sub) > 0
            THEN [candidates |-> SortValues(sub, "SubcatRank"), rtype |-> "subcat"]
       ELSE IF Len(cat) > 0
            THEN [candidates |-> SortValues(cat, "CatRank"), rtype |-> "category"]
       ELSE [candidates |-> NoCandidates, rtype |-> "none"]

Min2(a, b) == IF a < b THEN a ELSE b

\* the loop of request_specificity from request i on, with the running best
RECURSIVE SpecificityFrom(_, _, _, _)
SpecificityFrom(req_list, reps, i, best) ==
    IF i > Len(req_list) THEN best
    ELSE LET rtype == resolve_request(req_list[i], reps).rtype
         IN IF rtype = "rep" THEN 0
            ELSE IF rtype = "subcat" THEN SpecificityFrom(req_list, reps, i + 1, Min2(best, 1))
            ELSE IF rtype = "category" THEN SpecificityFrom(req_list, reps, i + 1, Min2(best, 2))
            ELSE SpecificityFrom(req_list, reps, i + 1, best)

WorstSpecificity == 3

request_specificity(req_list, reps) == SpecificityFrom(req_list, reps, 1, WorstSpecificity)

----------------------------------------------------------------------------
(* build_random_timeslot_index *)

SearchableSlots(ts, day) ==
    SelectSeq(SlotKeys(ts, day), LAMBDA s : SlotState(ts, day, s) \notin {"LUNCH", "BREAK"})

\* every outcome of shuffling each rep's searchable slots of each day
RandomTimeslotIndexes(reps, ts) ==
    LET days == Range(DayKeys(ts))
        all == UNION {SeqPerms(SearchableSlots(ts, d)) : d \in days}
        perDay == {f \in [days -> all] : \A d \in days : f[d] \in SeqPerms(SearchableSlots(ts, d))}
    IN [RepNames(reps) -> perDay]

----------------------------------------------------------------------------
(* _find_balanced_timeslot *)

NoSlot == [day |-> "None", slot |-> "None"]

Rotate(s, k) == SubSeq(s, k + 1, Len(s)) \o SubSeq(s, 1, k)

\* mutant: the rows of the supplier are looked up in the wrong column
SupplierUsed_WrongColumn(supplier, rows) ==
    {<<rows[i].day, rows[i].timeslot>> : i \in {j \in DOMAIN rows : rows[j].booth = supplier}}

SupplierUsed(supplier, rows) ==
    {<<rows[i].day, rows[i].timeslot>> : i \in {j \in DOMAIN rows : rows[j].supplier = supplier}}

\* mutant: the rep's availability is not consulted
SlotAcceptable_IgnoreAvail(ts, avail, used, rep, day, slot) ==
    /\ SlotState(ts, day, slot) \notin {"LUNCH", "BREAK"}
    /\ <<day, slot>> \notin used

SlotAcceptable(ts, avail, used, rep, day, slot) ==
    /\ SlotState(ts, day, slot) \notin {"LUNCH", "BREAK"}
    /\ <<day, slot>> \notin used
    /\ avail[rep][day][slot] = TRUE

\* mutant: only the first slot of the day's list is tried
FirstAcceptable_FirstOnly(ts, avail, used, rep, day, order) ==
    IF order # <<>> /\ SlotAcceptable(ts, avail, used, rep, day, order[1]) THEN 1 ELSE 0

\* the first acceptable position of a day's list for the rep, 0 if there is none
FirstAcceptable(ts, avail, used, rep, day, order) ==
    LET ok == {i \in DOMAIN order : SlotAcceptable(ts, avail, used, rep, day, order[i])}
    IN IF ok = {} THEN 0 ELSE CHOOSE i \in ok : \A j \in ok : i <= j

\* mutant: the search walks the calendar's own slot lists and tests the supplier only
find_balanced_timeslot_CalendarSlots(ts, supplier, rep, rows, avail, order, day_start_idx) ==
    LET used == SupplierUsed(supplier, rows)
        rotated == Rotate(DayKeys(ts), day_start_idx)
        FreeAt(day) == {i \in DOMAIN SlotKeys(ts, day) : <<day, SlotKeys(ts, day)[i]>> \notin used}
        hits == {d \in DOMAIN rotated : FreeAt(rotated[d]) # {}}
    IN IF hits = {} THEN NoSlot
       ELSE LET d == CHOOSE x \in hits : \A y \in hits : x <= y
                day == rotated[d]
            IN [day |-> day,
                slot |-> SlotKeys(ts, day)[CHOOSE i \in FreeAt(day) : \A j \in FreeAt(day) : i <= j]]

find_balanced_timeslot(ts, supplier, rep, rows, avail, order, day_start_idx) ==
    LET used == SupplierUsed(supplier, rows)
        rotated == Rotate(DayKeys(ts), day_start_idx)
        hits == {d \in DOMAIN rotated :
                    FirstAcceptable(ts, avail, used, rep, rotated[d], order[rep][rotated[d]]) > 0}
    IN IF hits = {} THEN NoSlot
       ELSE LET d == CHOOSE x \in hits : \A y \in hits : x <= y
                day == rotated[d]
            IN [day |-> day,
                slot |-> order[rep][day][FirstAcceptable(ts, avail, used, rep, day, order[rep][day])]]

----------------------------------------------------------------------------
(* run_scheduler: supplier ordering *)

TypeKey(type) == IF type = "Peak" THEN 0 ELSE 1

WithSpecificity(sdf, prefs, reps) ==
    [i \in DOMAIN sdf |->
        [Supplier |-> sdf[i].Supplier, Booth |-> sdf[i].Booth, Type |-> sdf[i].Type,
         Specificity |-> request_specificity(prefs[sdf[i].Supplier], reps)]]

\* mutant: the sort columns are given in the other order
SupplierSortKey_SpecificityFirst(row) == <<row.Specificity, TypeKey(row.Type)>>

SupplierSortKey(row) == <<TypeKey(row.Type), row.Specificity>>

\* mutant: suppliers without a resolvable request are left out of the order
OrderSuppliers_ResolvableOnly(sdf, prefs, reps) ==
    LET rows == WithSpecificity(sdf, prefs, reps)
    IN SelectSeq(Values(SortKeyed([i \in DOMAIN rows |->
                                     [k |-> SupplierSortKey(rows[i]), v |-> rows[i]]])),
                 LAMBDA r : r.Specificity < WorstSpecificity)

OrderSuppliers(sdf, prefs, reps) ==
    LET rows == WithSpecificity(sdf, prefs, reps)
    IN Values(SortKeyed([i \in DOMAIN rows |-> [k |-> SupplierSortKey(rows[i]), v |-> rows[i]]]))

\* mutant: every supplier starts its search at the first day
DayStartIndex_AlwaysFirstDay(ordered, ts) ==
    [s \in {ordered[i].Supplier : i \in DOMAIN ordered} |-> 0]

DayStartIndex(ordered, ts) ==
    [s \in {ordered[i].Supplier : i \in DOMAIN ordered} |->
        ((CHOOSE i \in DOMAIN ordered : ordered[i].Supplier = s) - 1) % Len(ts)]

SupplierCap(type, peak, acc) == IF type = "Peak" THEN peak ELSE acc

----------------------------------------------------------------------------
(* run_scheduler: the state of a pass and the steps of its loops *)

PassState ==
    [rep_avail |-> rep_avail, rep_meeting_count |-> rep_meeting_count,
     supplier_meeting_count |-> supplier_meeting_count, supplier_rows |-> supplier_rows,
     rep_rows |-> rep_rows, supplier_summary |-> supplier_summary,
     row_request |-> row_request]

InitialAvail(reps, ts) ==
    [r \in RepNames(reps) |->
        [d \in Range(DayKeys(ts)) |->
            [s \in Range(SlotKeys(ts, d)) |-> SlotState(ts, d, s) = "None"]]]

EmptyMap == <<>>

InitialPassState(reps, ts) ==
    [rep_avail |-> InitialAvail(reps, ts),
     rep_meeting_count |-> [r \in RepNames(reps) |-> 0],
     supplier_meeting_count |-> EmptyMap, supplier_rows |-> <<>>, rep_rows |-> <<>>,
     supplier_summary |-> EmptyMap, row_request |-> <<>>]

\* d[key] = value on a dict
Put(d, key, value) == [x \in DOMAIN d \cup {key} |-> IF x = key THEN value ELSE d[x]]

\* d.get(key, default)
Get(d, key, default) == IF key \in DOMAIN d THEN d[key] ELSE default

BeginSupplierState(st, supp, prefs) ==
    [st EXCEPT
        !.supplier_meeting_count = Put(@, supp.Supplier, 0),
        !.supplier_summary =
            Put(@, supp.Supplier,
                [requested |-> prefs[supp.Supplier], fulfilled |-> <<>>,
                 category_counts |-> EmptyMap])]

\* mutant: the per-rep cap is not tested
CandidateSlot_NoCapTest(st, supplier, rep, order, day_start_idx, ts, cap_rep) ==
    find_balanced_timeslot(ts, supplier, rep, st.supplier_rows, st.rep_avail, order,
                           day_start_idx)

\* the slot the candidate loop finds for one candidate, NoSlot if it is skipped
CandidateSlot(st, supplier, rep, order, day_start_idx, ts, cap_rep) ==
    IF st.rep_meeting_count[rep] >= cap_rep THEN NoSlot
    ELSE find_balanced_timeslot(ts, supplier, rep, st.supplier_rows, st.rep_avail, order,
                                day_start_idx)

\* truth value of a calendar key or of None
Truthy(x) == x \notin {"None", ""}

\* line 221: if day and slot
Found(found) == Truthy(found.day) /\ Truthy(found.slot)

\* mutant: the loop does not break and keeps the last candidate with a slot
AssignedIndex_LastHit(st, supplier, cands, order, day_start_idx, ts, cap_rep) ==
    LET hits == {i \in DOMAIN cands :
                    Found(CandidateSlot(st, supplier, cands[i].SalesRep, order,
                                        day_start_idx, ts, cap_rep))}
    IN IF hits = {} THEN 0 ELSE CHOOSE i \in hits : \A j \in hits : i >= j

\* the index in the candidate list of the rep the loop breaks on, 0 if it ends without
AssignedIndex(st, supplier, cands, order, day_start_idx, ts, cap_rep) ==
    LET hits == {i \in DOMAIN cands :
                    Found(CandidateSlot(st, supplier, cands[i].SalesRep, order,
                                        day_start_idx, ts, cap_rep))}
    IN IF hits = {} THEN 0 ELSE CHOOSE i \in hits : \A j \in hits : i <= j

\* mutant: the label is the rep's category whatever the tier
CategoryLabel_AlwaysCategory(req_type, rep_row, request) ==
    IF req_type \in {"rep", "subcat", "category"} THEN rep_row.Category ELSE request

CategoryLabel(req_type, rep_row, request) ==
    IF req_type = "rep" THEN rep_row.Category
    ELSE IF req_type = "subcat" THEN rep_row.Subcategory
    ELSE IF req_type = "category" THEN rep_row.Category
    ELSE request

\* mutant: the commit sets the request's category count to one
Commit_CountSetToOne(st, supp, request, rep_row, found, label) ==
    LET supplier == supp.Supplier
        rep == rep_row.SalesRep
        summary == st.supplier_summary[supplier]
    IN [st EXCEPT
        !.supplier_rows =
            Append(@, [supplier |-> supplier, booth |-> supp.Booth, day |-> found.day,
                       timeslot |-> found.slot, rep |-> rep, category |-> label]),
        !.rep_rows =
            Append(@, [rep |-> rep, day |-> found.day, timeslot |-> found.slot,
                       supplier |-> supplier, booth |-> supp.Booth, category |-> label]),
        !.rep_avail[rep][found.day][found.slot] = FALSE,
        !.rep_meeting_count[rep] = @ + 1,
        !.supplier_meeting_count[supplier] = @ + 1,
        !.supplier_summary[supplier] =
            [summary EXCEPT
                !.fulfilled = Append(@, request),
                !.category_counts = Put(@, request, 1)],
        !.row_request = Append(@, request)]

\* mutant: the commit records the meeting and does not mark the rep's slot busy
Commit_SlotLeftFree(st, supp, request, rep_row, found, label) ==
    LET supplier == supp.Supplier
        rep == rep_row.SalesRep
        summary == st.supplier_summary[supplier]
    IN [st EXCEPT
        !.supplier_rows =
            Append(@, [supplier |-> supplier, booth |-> supp.Booth, day |-> found.day,
                       timeslot |-> found.slot, rep |-> rep, category |-> label]),
        !.rep_rows =
            Append(@, [rep |-> rep, day |-> found.day, timeslot |-> found.slot,
                       supplier |-> supplier, booth |-> supp.Booth, category |-> label]),
        !.rep_meeting_count[rep] = @ + 1,
        !.supplier_meeting_count[supplier] = @ + 1,
        !.supplier_summary[supplier] =
            [summary EXCEPT
                !.fulfilled = Append(@, request),
                !.category_counts = Put(@, request, Get(@, request, 0) + 1)],
        !.row_request = Append(@, request)]

\* mutant: the commit leaves the rep's counter alone
Commit_RepCountUnchanged(st, supp, request, rep_row, found, label) ==
    LET supplier == supp.Supplier
        rep == rep_row.SalesRep
        summary == st.supplier_summary[supplier]
    IN [st EXCEPT
        !.supplier_rows =
            Append(@, [supplier |-> supplier, booth |-> supp.Booth, day |-> found.day,
                       timeslot |-> found.slot, rep |-> rep, category |-> label]),
        !.rep_rows =
            Append(@, [rep |-> rep, day |-> found.day, timeslot |-> found.slot,
                       supplier |-> supplier, booth |-> supp.Booth, category |-> label]),
        !.rep_avail[rep][found.day][found.slot] = FALSE,
        !.supplier_meeting_count[supplier] = @ + 1,
        !.supplier_summary[supplier] =
            [summary EXCEPT
                !.fulfilled = Append(@, request),
                !.category_counts = Put(@, request, Get(@, request, 0) + 1)],
        !.row_request = Append(@, request)]

Commit(st, supp, request, rep_row, found, label) ==
    LET supplier == supp.Supplier
        rep == rep_row.SalesRep
        summary == st.supplier_summary[supplier]
    IN [st EXCEPT
        !.supplier_rows =
            Append(@, [supplier |-> supplier, booth |-> supp.Booth, day |-> found.day,
                       timeslot |-> found.slot, rep |-> rep, category |-> label]),
        !.rep_rows =
            Append(@, [rep |-> rep, day |-> found.day, timeslot |-> found.slot,
                       supplier |-> supplier, booth |-> supp.Booth, category |-> label]),
        !.rep_avail[rep][found.day][found.slot] = FALSE,
        !.rep_meeting_count[rep] = @ + 1,
        !.supplier_meeting_count[supplier] = @ + 1,
        !.supplier_summary[supplier] =
            [summary EXCEPT
                !.fulfilled = Append(@, request),
                !.category_counts = Put(@, request, Get(@, request, 0) + 1)],
        !.row_request = Append(@, request)]

\* what one iteration of the request loop does after the cap test
RequestOutcome(st, supp, request, order, day_start_idx, ts, reps, cap_rep) ==
    LET res == resolve_request(request, reps)
    IN IF res.candidates = NoCandidates THEN "unresolved"
       ELSE IF AssignedIndex(st, supp.Supplier, res.candidates, order, day_start_idx, ts,
                             cap_rep) = 0
            THEN "unassigned"
       ELSE "assigned"

\* mutant: the candidate loop walks the whole rep table instead of the candidates
ProcessRequest_AnyRep(st, supp, request, order, day_start_idx, ts, reps, cap_rep) ==
    LET res == resolve_request(request, reps)
        i == AssignedIndex(st, supp.Supplier, reps, order, day_start_idx, ts, cap_rep)
    IN IF res.candidates = NoCandidates \/ i = 0 THEN st
       ELSE LET rep_row == reps[i]
                found == CandidateSlot(st, supp.Supplier, rep_row.SalesRep, order,
                                       day_start_idx, ts, cap_rep)
            IN Commit(st, supp, request, rep_row, found,
                      CategoryLabel(res.rtype, rep_row, request))

ProcessRequest(st, supp, request, order, day_start_idx, ts, reps, cap_rep) ==
    LET res == resolve_request(request, reps)
        i == AssignedIndex(st, supp.Supplier, res.candidates, order, day_start_idx, ts, cap_rep)
    IN IF res.candidates = NoCandidates \/ i = 0 THEN st
       ELSE LET rep_row == res.candidates[i]
                found == CandidateSlot(st, supp.Supplier, rep_row.SalesRep, order,
                                       day_start_idx, ts, cap_rep)
            IN Commit(st, supp, request, rep_row, found,
                      CategoryLabel(res.rtype, rep_row, request))

\* list(set(fulfilled)): the distinct entries in an order the set decides
FulfilledLists(fulfilled) == SeqPerms(Dedupe(fulfilled))

EndSupplierState(st, supplier, fulfilled) ==
    [st EXCEPT !.supplier_summary[supplier].fulfilled = fulfilled]

----------------------------------------------------------------------------
(* run_scheduler as a function of its inputs and of the random slot order *)

\* the request loop of one supplier from request i on
RECURSIVE RequestsFrom(_, _, _, _, _, _, _, _, _)
RequestsFrom(st, supp, reqs, i, cap, order, day_start_idx, ts, env) ==
    IF i > Len(reqs) \/ st.supplier_meeting_count[supp.Supplier] >= cap THEN st
    ELSE RequestsFrom(ProcessRequest(st, supp, reqs[i], order, day_start_idx, ts, env.reps,
                                     env.cap_rep),
                      supp, reqs, i + 1, cap, order, day_start_idx, ts, env)

\* the supplier loop from position k of the ordered suppliers on
RECURSIVE SuppliersFrom(_, _, _, _, _, _)
SuppliersFrom(st, ordered, k, order, ts, env) ==
    IF k > Len(ordered) THEN st
    ELSE LET supp == ordered[k]
             begun == BeginSupplierState(st, supp, env.prefs)
             looped == RequestsFrom(begun, supp, env.prefs[supp.Supplier], 1,
                                    SupplierCap(supp.Type, env.peak, env.acc), order,
                                    DayStartIndex(ordered, ts)[supp.Supplier], ts, env)
             ended == EndSupplierState(looped, supp.Supplier,
                                       Dedupe(looped.supplier_summary[supp.Supplier].fulfilled))
         IN SuppliersFrom(ended, ordered, k + 1, order, ts, env)

\* the state in which a pass with the random slot order `order` ends
RunPass(sdf, reps, prefs, cap_rep, peak, acc, ts, order) ==
    SuppliersFrom(InitialPassState(reps, ts), OrderSuppliers(sdf, prefs, reps), 1, order, ts,
                  [reps |-> reps, prefs |-> prefs, cap_rep |-> cap_rep, peak |-> peak,
                   acc |-> acc])

----------------------------------------------------------------------------
(* run_scheduler: the returned tables *)

\* str order of the calendar keys and supplier names, and of the rep names
SortedText == <<"09:00", "10:00", "11:00", "12:00", "Acme", "Bolt", "Day 1", "Day 2">>

SortedNames == << <<"Ann">>, <<"Bob">> >>

TextRank(x) == CHOOSE i \in DOMAIN SortedText : SortedText[i] = x

NameRank(x) == CHOOSE i \in DOMAIN SortedNames : SortedNames[i] = x

SupplierSched(rows) ==
    Values(SortKeyed([i \in DOMAIN rows |->
        [k |-> <<TextRank(rows[i].supplier), TextRank(rows[i].day), TextRank(rows[i].timeslot)>>,
         v |-> rows[i]]]))

RepSched(rows) ==
    Values(SortKeyed([i \in DOMAIN rows |->
        [k |-> <<NameRank(rows[i].rep), TextRank(rows[i].day), TextRank(rows[i].timeslot)>>,
         v |-> rows[i]]]))

Pending == [kind |-> "pending"]

\* DataFrame([]) has no columns: sort_values raises KeyError on an empty meeting list
ReturnValue(st) ==
    IF st.supplier_rows = <<>> THEN [kind |-> "raised", error |-> "KeyError"]
    ELSE [kind |-> "returned", supplier_sched |-> SupplierSched(st.supplier_rows),
          rep_sched |-> RepSched(st.rep_rows), supplier_summary |-> st.supplier_summary]

----------------------------------------------------------------------------
(* app.py: the substitution log as attach_substitutions reads it *)

Substitutions(summary) == Get(summary, "substitutions", EmptyMap)

\* the documented substitution hierarchy: who may replace a rep
Replacements(rep, reps) ==
    LET me == LeaderInfo[rep]
    IN {r \in RepNames(reps) \ {rep} :
          LET other == LeaderInfo[r]
          IN \/ me.Tier = "Key" /\ other.Tier \in {"Region", "District"}
                /\ other.Segment = me.Segment
             \/ me.Tier = "Region" /\ other.Tier = "District" /\ other.Region = me.Region
             \/ me.Tier = "District" /\ other.Tier = "District" /\ other.Region = me.Region}

\* main, lines 252-255: the suppliers of the list that the summary does not hold
MissingSuppliers(sdf, summary) ==
    SelectSeq([i \in DOMAIN sdf |-> sdf[i].Supplier], LAMBDA n : n \notin DOMAIN summary)

----------------------------------------------------------------------------
(* The state machine *)

SetPassState(st) ==
    /\ rep_avail' = st.rep_avail
    /\ rep_meeting_count' = st.rep_meeting_count
    /\ supplier_meeting_count' = st.supplier_meeting_count
    /\ supplier_rows' = st.supplier_rows
    /\ rep_rows' = st.rep_rows
    /\ supplier_summary' = st.supplier_summary
    /\ row_request' = st.row_request

passVars == <<rep_avail, rep_meeting_count, supplier_meeting_count, supplier_rows, rep_rows,
              supplier_summary, row_request>>

InitialLocals ==
    /\ rep_avail = EmptyMap
    /\ rep_timeslot_order = EmptyMap
    /\ rep_meeting_count = EmptyMap
    /\ supplier_meeting_count = EmptyMap
    /\ supplier_rows = <<>>
    /\ rep_rows = <<>>
    /\ supplier_summary = EmptyMap
    /\ ordered_suppliers = <<>>
    /\ supplier_day_start_index = EmptyMap
    /\ pc = "call"
    /\ si = 0
    /\ ri = 0
    /\ result = Pending
    /\ row_request = <<>>
    /\ iter_log = <<>>

SupplierFrames ==
    {[i \in DOMAIN SupplierTable |->
         [Supplier |-> SupplierTable[i].Supplier, Booth |-> SupplierTable[i].Booth,
          Type |-> t[i]]] : t \in [DOMAIN SupplierTable -> SupplierTypes]}

NoRequest == <<>>

Init ==
    /\ suppliers_df \in SupplierFrames
    /\ reps_df = RepsTable
    /\ request_arg = NoRequest
    /\ frames = EmptyMap
    /\ preferences \in PreferenceChoices
    /\ time_slots \in Calendars
    /\ \E c \in CapChoices :
          /\ InputChoice(preferences, c, time_slots)
          /\ max_meetings_rep = c.rep
          /\ max_peak = c.peak
          /\ max_acc = c.acc
    /\ InitialLocals

InitContention ==
    /\ suppliers_df \in SupplierFrames
    /\ reps_df = RepsTable
    /\ request_arg = NoRequest
    /\ frames = EmptyMap
    /\ preferences \in PreferenceChoices
    /\ time_slots \in Calendars
    /\ \E c \in CapChoices :
          /\ ContentionChoice(preferences, c, time_slots)
          /\ max_meetings_rep = c.rep
          /\ max_peak = c.peak
          /\ max_acc = c.acc
    /\ InitialLocals

\* mutant: the Specificity column is written to the caller's supplier list, no copy
StartPass_NoCopy ==
    /\ pc = "call"
    /\ SetPassState(InitialPassState(reps_df, time_slots))
    /\ rep_timeslot_order' \in RandomTimeslotIndexes(reps_df, time_slots)
    /\ suppliers_df' = WithSpecificity(suppliers_df, preferences, reps_df)
    /\ ordered_suppliers' = OrderSuppliers(suppliers_df, preferences, reps_df)
    /\ supplier_day_start_index' = DayStartIndex(ordered_suppliers', time_slots)
    /\ pc' = "supplier"
    /\ si' = 1
    /\ UNCHANGED <<reps_df, preferences, max_meetings_rep, max_peak, max_acc, time_slots,
                   request_arg, frames, ri, result, iter_log>>

\* lines 118-167: availability map, random slot order, counters, supplier order
StartPass ==
    /\ pc = "call"
    /\ SetPassState(InitialPassState(reps_df, time_slots))
    /\ rep_timeslot_order' \in RandomTimeslotIndexes(reps_df, time_slots)
    /\ ordered_suppliers' = OrderSuppliers(suppliers_df, preferences, reps_df)
    /\ supplier_day_start_index' = DayStartIndex(ordered_suppliers', time_slots)
    /\ pc' = "supplier"
    /\ si' = 1
    /\ UNCHANGED <<inputs, frames, ri, result, iter_log>>

CurrentSupplier == ordered_suppliers[si]

CurrentCap == SupplierCap(CurrentSupplier.Type, max_peak, max_acc)

CurrentRequests == preferences[CurrentSupplier.Supplier]

\* lines 172-188: the head of the supplier loop
BeginSupplier ==
    /\ pc = "supplier"
    /\ si <= Len(ordered_suppliers)
    /\ SetPassState(BeginSupplierState(PassState, CurrentSupplier, preferences))
    /\ ri' = 1
    /\ pc' = "request"
    /\ UNCHANGED <<inputs, frames, rep_timeslot_order, ordered_suppliers, supplier_day_start_index,
                   si, result, iter_log>>

\* mutant: the supplier's cap does not end the request loop
RequestLoopRuns_NoCapTest ==
    /\ pc = "request"
    /\ ri <= Len(CurrentRequests)

\* line 193: the request loop goes on with request ri
RequestLoopRuns ==
    /\ pc = "request"
    /\ ri <= Len(CurrentRequests)
    /\ supplier_meeting_count[CurrentSupplier.Supplier] < CurrentCap

CurrentOutcome ==
    RequestOutcome(PassState, CurrentSupplier, CurrentRequests[ri], rep_timeslot_order,
                   supplier_day_start_index[CurrentSupplier.Supplier], time_slots, reps_df,
                   max_meetings_rep)

LogEntry(outcome) ==
    [supplier |-> CurrentSupplier.Supplier, index |-> ri, request |-> CurrentRequests[ri],
     outcome |-> outcome,
     count_before |-> supplier_meeting_count[CurrentSupplier.Supplier],
     cap |-> CurrentCap]

\* lines 196-263: the body of the request loop on request ri, with its outcome logged
RequestBody(outcome) ==
    /\ SetPassState(ProcessRequest(PassState, CurrentSupplier, CurrentRequests[ri],
                                   rep_timeslot_order,
                                   supplier_day_start_index[CurrentSupplier.Supplier],
                                   time_slots, reps_df, max_meetings_rep))
    /\ iter_log' = Append(iter_log, LogEntry(outcome))
    /\ ri' = ri + 1
    /\ UNCHANGED <<inputs, frames, rep_timeslot_order, ordered_suppliers, supplier_day_start_index,
                   pc, si, result>>

\* lines 191-198: the request resolves to nothing
SkipUnresolved ==
    /\ RequestLoopRuns
    /\ CurrentOutcome = "unresolved"
    /\ RequestBody("unresolved")

\* lines 191-227: no candidate is below cap with a slot
LeaveUnfulfilled ==
    /\ RequestLoopRuns
    /\ CurrentOutcome = "unassigned"
    /\ RequestBody("unassigned")

\* lines 191-263: a candidate is found and the meeting is committed
AssignMeeting ==
    /\ RequestLoopRuns
    /\ CurrentOutcome = "assigned"
    /\ RequestBody("assigned")

\* lines 193-194 and 265-267: the request loop ends, fulfilled becomes list(set(...))
EndSupplier ==
    /\ pc = "request"
    /\ ~RequestLoopRuns
    /\ \E f \in FulfilledLists(supplier_summary[CurrentSupplier.Supplier].fulfilled) :
          SetPassState(EndSupplierState(PassState, CurrentSupplier.Supplier, f))
    /\ si' = si + 1
    /\ pc' = "supplier"
    /\ UNCHANGED <<inputs, frames, rep_timeslot_order, ordered_suppliers, supplier_day_start_index,
                   ri, result, iter_log>>

\* lines 269-273: the sorted tables are returned
ReturnResult ==
    /\ pc = "supplier"
    /\ si > Len(ordered_suppliers)
    /\ supplier_rows # <<>>
    /\ result' = ReturnValue(PassState)
    /\ pc' = "returned"
    /\ UNCHANGED <<inputs, frames, passVars, rep_timeslot_order, ordered_suppliers,
                   supplier_day_start_index, si, ri, iter_log>>

\* line 270: sort_values on the empty meeting table raises
RaiseKeyError ==
    /\ pc = "supplier"
    /\ si > Len(ordered_suppliers)
    /\ supplier_rows = <<>>
    /\ result' = ReturnValue(PassState)
    /\ pc' = "raised"
    /\ UNCHANGED <<inputs, frames, passVars, rep_timeslot_order, ordered_suppliers,
                   supplier_day_start_index, si, ri, iter_log>>

Next ==
    \/ StartPass
    \/ BeginSupplier
    \/ SkipUnresolved
    \/ LeaveUnfulfilled
    \/ AssignMeeting
    \/ EndSupplier
    \/ ReturnResult
    \/ RaiseKeyError

Spec == Init /\ [][Next]_vars

\* the same program on the inputs of InitContention
SpecContention == InitContention /\ [][Next]_vars

----------------------------------------------------------------------------
(* resolve_request called on its own: rep tables in which a text is at once a rep *)
(* name, a sub-category and a category, names repeat, and text is padded          *)

ResolveNames == {<<"Ann">>, <<" ", "Ann">>, <<"Metal">>, <<"East">>}

ResolveSubcats == {<<"Metal">>, <<"Steel">>}

ResolveCats == {<<"East">>, <<"Metal">>}

ResolveRepRows ==
    {[SalesRep |-> n, Category |-> c, Subcategory |-> sc, CatRank |-> k,
      SubcatRank |-> IF k = 1 THEN 2 ELSE 1] :
        n \in ResolveNames, c \in ResolveCats, sc \in ResolveSubcats, k \in {1, 2}}

ResolveRequests ==
    {<<"Ann">>, <<" ", "Ann">>, <<"Metal">>, <<"Metal", " ">>, <<"East">>, <<"Nobody">>}

InitResolve ==
    /\ reps_df \in SeqsUpTo(ResolveRepRows, MaxRows)
    /\ request_arg \in ResolveRequests
    /\ frames = EmptyMap
    /\ suppliers_df = <<>>
    /\ preferences = EmptyMap
    /\ max_meetings_rep = MaxCap
    /\ max_peak = MaxCap
    /\ max_acc = MaxCap
    /\ time_slots = CalOneOpen
    /\ InitialLocals

\* lines 9-28: one call resolve_request(request_arg, reps_df)
CallResolve ==
    /\ pc = "call"
    /\ result' = [kind |-> "resolved",
                  candidates |-> resolve_request(request_arg, reps_df).candidates,
                  rtype |-> resolve_request(request_arg, reps_df).rtype]
    /\ pc' = "resolved"
    /\ UNCHANGED <<inputs, frames, passVars, rep_timeslot_order, ordered_suppliers,
                   supplier_day_start_index, si, ri, iter_log>>

NextResolve == CallResolve

SpecResolve == InitResolve /\ [][NextResolve]_vars

----------------------------------------------------------------------------
(* Two invocations of run_scheduler on the same inputs, their steps interleaved. *)
(* All state of a pass is local to its invocation: frames[p] holds the locals of  *)
(* invocation p; the calendar is the one module-level object and is only read.    *)

Passes == {1, 2}

OtherPass(p) == 3 - p

Running(f) == f.pc \in {"supplier", "request"}

NotCalled ==
    [pc |-> "call", si |-> 0, ri |-> 0, st |-> InitialPassState(<<>>, <<>>),
     order |-> EmptyMap, ordered |-> <<>>, start_index |-> EmptyMap, result |-> Pending,
     overlapped |-> FALSE]

\* mutant: the availability map is one object shared by the invocations
WriteFrame_SharedAvail(fr, p, f) ==
    [q \in DOMAIN fr |->
        IF q = p THEN f ELSE [fr[q] EXCEPT !.st.rep_avail = f.st.rep_avail]]

\* a step of invocation p assigns its own locals, nothing else
WriteFrame(fr, p, f) == [q \in DOMAIN fr |-> IF q = p THEN f ELSE fr[q]]

\* the inputs of InitPair: Peak suppliers asking for a rep or a sub-category, on the
\* calendar whose day has two open slots to shuffle
PairRequests == {<<"Ann">>, <<" ", "Metal">>}

PairChoice(sdf, prefs) ==
    /\ \A i \in DOMAIN sdf : sdf[i].Type = "Peak"
    /\ \A s \in SupplierNames : Range(prefs[s]) \subseteq PairRequests
    /\ TotalLen(prefs, SupplierNames) <= MaxReqs

InitPair ==
    /\ suppliers_df \in SupplierFrames
    /\ reps_df = RepsTable
    /\ request_arg = NoRequest
    /\ preferences \in PreferenceChoices
    /\ PairChoice(suppliers_df, preferences)
    /\ time_slots = CalTwoOpen
    /\ max_meetings_rep = MaxCap
    /\ max_peak = MaxCap
    /\ max_acc = MaxCap
    /\ InitialLocals
    /\ frames = [p \in Passes |-> NotCalled]

FrameCap(f) == SupplierCap(f.ordered[f.si].Type, max_peak, max_acc)

FrameLoopRuns(f) ==
    /\ f.ri <= Len(preferences[f.ordered[f.si].Supplier])
    /\ f.st.supplier_meeting_count[f.ordered[f.si].Supplier] < FrameCap(f)

\* invocation p takes a step that leaves its locals as f
StepTo(p, f) ==
    /\ frames' = WriteFrame(frames, p,
                            [f EXCEPT !.overlapped = @ \/ Running(frames[OtherPass(p)])])
    /\ UNCHANGED <<inputs, passVars, rep_timeslot_order, ordered_suppliers,
                   supplier_day_start_index, pc, si, ri, result, iter_log>>

\* lines 118-167 in invocation p; invocation 1 is the one called first
PassStart(p) ==
    /\ frames[p].pc = "call"
    /\ \A q \in Passes : q < p => frames[q].pc # "call"
    /\ \E order \in RandomTimeslotIndexes(reps_df, time_slots) :
          StepTo(p, [frames[p] EXCEPT
                        !.pc = "supplier", !.si = 1,
                        !.st = InitialPassState(reps_df, time_slots),
                        !.order = order,
                        !.ordered = OrderSuppliers(suppliers_df, preferences, reps_df),
                        !.start_index =
                            DayStartIndex(OrderSuppliers(suppliers_df, preferences, reps_df),
                                          time_slots)])

\* mutant: the slot order is drawn again at the head of every supplier
PassBeginSupplier_Reshuffles(p) ==
    LET f == frames[p]
    IN /\ f.pc = "supplier"
       /\ f.si <= Len(f.ordered)
       /\ \E order \in RandomTimeslotIndexes(reps_df, time_slots) :
             StepTo(p, [f EXCEPT !.pc = "request", !.ri = 1, !.order = order,
                                 !.st = BeginSupplierState(f.st, f.ordered[f.si],
                                                           preferences)])

\* lines 172-188 in invocation p
PassBeginSupplier(p) ==
    LET f == frames[p]
    IN /\ f.pc = "supplier"
       /\ f.si <= Len(f.ordered)
       /\ StepTo(p, [f EXCEPT !.pc = "request", !.ri = 1,
                               !.st = BeginSupplierState(f.st, f.ordered[f.si], preferences)])

\* lines 191-263 in invocation p: one iteration of the request loop
PassRequest(p) ==
    LET f == frames[p]
    IN /\ f.pc = "request"
       /\ FrameLoopRuns(f)
       /\ StepTo(p, [f EXCEPT
                        !.ri = @ + 1,
                        !.st = ProcessRequest(f.st, f.ordered[f.si],
                                              preferences[f.ordered[f.si].Supplier][f.ri],
                                              f.order,
                                              f.start_index[f.ordered[f.si].Supplier],
                                              time_slots, reps_df, max_meetings_rep)])

\* lines 193-194 and 265-267 in invocation p
PassEndSupplier(p) ==
    LET f == frames[p]
    IN /\ f.pc = "request"
       /\ ~FrameLoopRuns(f)
       /\ \E l \in FulfilledLists(f.st.supplier_summary[f.ordered[f.si].Supplier].fulfilled) :
             StepTo(p, [f EXCEPT !.pc = "supplier", !.si = @ + 1,
                                 !.st = EndSupplierState(f.st, f.ordered[f.si].Supplier, l)])

\* lines 269-273 in invocation p: the return, or the KeyError of the empty table
PassReturn(p) ==
    LET f == frames[p]
    IN /\ f.pc = "supplier"
       /\ f.si > Len(f.ordered)
       /\ StepTo(p, [f EXCEPT !.pc = ReturnValue(f.st).kind, !.result = ReturnValue(f.st)])

NextPair ==
    \E p \in Passes :
        \/ PassStart(p)
        \/ PassBeginSupplier(p)
        \/ PassRequest(p)
        \/ PassEndSupplier(p)
        \/ PassReturn(p)

SpecPair == InitPair /\ [][NextPair]_vars

----------------------------------------------------------------------------
(* Vocabulary of the properties *)

Peers(rows, i) == {j \in DOMAIN rows : j # i}

SameSlot(a, b) == a.day = b.day /\ a.timeslot = b.timeslot

NoRepClash(rows) ==
    \A i \in DOMAIN rows : \A j \in Peers(rows, i) :
        ~(rows[i].rep = rows[j].rep /\ SameSlot(rows[i], rows[j]))

NoSupplierClash(rows) ==
    \A i \in DOMAIN rows : \A j \in Peers(rows, i) :
        ~(rows[i].supplier = rows[j].supplier /\ SameSlot(rows[i], rows[j]))

\* the meeting tables a state holds: the two lists of the pass and the returned tables
MeetingTables ==
    {supplier_rows, rep_rows}
        \cup (IF result.kind = "returned" THEN {result.supplier_sched, result.rep_sched}
              ELSE {})

MeetingsOfRep(rows, rep) == {i \in DOMAIN rows : rows[i].rep = rep}

MeetingsOfSupplier(rows, supplier) == {i \in DOMAIN rows : rows[i].supplier = supplier}

TypeOf(supplier) ==
    (CHOOSE r \in Range(suppliers_df) : r.Supplier = supplier).Type

CapOfType(supplier) == IF TypeOf(supplier) = "Peak" THEN max_peak ELSE max_acc

LogOf(supplier) == {i \in DOMAIN iter_log : iter_log[i].supplier = supplier}

CandidateNames(request) ==
    {c.SalesRep : c \in Range(resolve_request(request, reps_df).candidates)}

SlotIndex(ts, day, slot) ==
    CHOOSE i \in DOMAIN SlotKeys(ts, day) : SlotKeys(ts, day)[i] = slot

OpenSlots(ts) ==
    {<<d, s>> \in UNION {{<<x, y>> : y \in Range(SlotKeys(ts, x))} : x \in Range(DayKeys(ts))} :
        SlotState(ts, d, s) = "None"}

LastLog == iter_log[Len(iter_log)]

\* the last step of the request loop left its request without a meeting, and the
\* state is still the one that step saw
JustLeftUnfulfilled ==
    /\ pc = "request"
    /\ ri > 1
    /\ iter_log # <<>>
    /\ LastLog.supplier = CurrentSupplier.Supplier
    /\ LastLog.index = ri - 1
    /\ LastLog.outcome = "unassigned"

\* the slot search of the current supplier for a rep, on the current state
SearchNow(rep) ==
    find_balanced_timeslot(time_slots, CurrentSupplier.Supplier, rep, supplier_rows, rep_avail,
                           rep_timeslot_order,
                           supplier_day_start_index[CurrentSupplier.Supplier])

----------------------------------------------------------------------------
(* C1..C6: the invariants of a pass *)

\* C1: in every state of a pass and in its result, no two distinct meetings have the
\* same (rep, day, slot); when suppliers compete for a rep with one open slot, at most
\* one meeting is created for that rep and slot.
C1_NoRepDoubleBooked == \A rows \in MeetingTables : NoRepClash(rows)

\* two suppliers asked for the same rep on the calendar with a single open slot, the
\* rep cap did not stand in the way, and only one of them got the meeting
C1_Witness ==
    /\ pc = "returned"
    /\ Cardinality(OpenSlots(time_slots)) = 1
    /\ max_meetings_rep > 1
    /\ \E e \in Range(iter_log) : \E i \in DOMAIN supplier_rows :
          /\ e.outcome = "unassigned"
          /\ e.supplier # supplier_rows[i].supplier
          /\ supplier_rows[i].rep \in CandidateNames(e.request)
          /\ Cardinality(MeetingsOfRep(supplier_rows, supplier_rows[i].rep)) = 1

\* C2: in every state of a pass and in its result, no two distinct meetings have the
\* same (supplier, day, slot).
C2_NoSupplierDoubleBooked == \A rows \in MeetingTables : NoSupplierClash(rows)

\* a supplier holds two meetings on one day, and the slot its first meeting took was
\* the first of the second rep's random order and free for that rep
C2_Witness ==
    \E i, j \in DOMAIN supplier_rows :
        /\ i < j
        /\ supplier_rows[i].supplier = supplier_rows[j].supplier
        /\ supplier_rows[i].day = supplier_rows[j].day
        /\ supplier_rows[i].rep # supplier_rows[j].rep
        /\ rep_timeslot_order[supplier_rows[j].rep][supplier_rows[j].day][1]
              = supplier_rows[i].timeslot
        /\ rep_avail[supplier_rows[j].rep][supplier_rows[i].day][supplier_rows[i].timeslot]

\* C3: in every state of a pass, the number of meetings that reference a rep is at
\* most max_meetings_rep.
C3_RepCapRespected ==
    \A rows \in MeetingTables : \A rep \in RepNames(reps_df) :
        Cardinality(MeetingsOfRep(rows, rep)) <= max_meetings_rep

\* a request was left unfulfilled although one of its candidates still had a slot for
\* the supplier: the candidate was at a positive cap
C3_Witness ==
    /\ JustLeftUnfulfilled
    /\ max_meetings_rep >= 1
    /\ \E rep \in CandidateNames(LastLog.request) :
          /\ Cardinality(MeetingsOfRep(supplier_rows, rep)) = max_meetings_rep
          /\ SearchNow(rep) # NoSlot

\* C4: in every state of a pass, the number of meetings that reference a supplier is at
\* most the cap of its type, and no request of a supplier is processed once the
\* supplier's count has reached the cap.
C4_SupplierCapRespected ==
    /\ \A rows \in MeetingTables : \A s \in SupplierNames :
          Cardinality(MeetingsOfSupplier(rows, s)) <= CapOfType(s)
    /\ \A s \in DOMAIN supplier_meeting_count :
          supplier_meeting_count[s] = Cardinality(MeetingsOfSupplier(supplier_rows, s))
    /\ \A e \in Range(iter_log) : e.count_before < CapOfType(e.supplier)

\* a supplier reached a positive cap and its later requests were never processed
C4_Witness ==
    /\ pc = "returned"
    /\ \E s \in SupplierNames :
          /\ CapOfType(s) >= 1
          /\ Cardinality(MeetingsOfSupplier(supplier_rows, s)) = CapOfType(s)
          /\ Cardinality(LogOf(s)) < Len(preferences[s])

\* C5: no meeting is placed in a calendar slot tagged LUNCH or BREAK.
C5_NoBlackoutMeeting ==
    \A rows \in MeetingTables : \A i \in DOMAIN rows :
        SlotState(time_slots, rows[i].day, rows[i].timeslot) \notin {"LUNCH", "BREAK"}

\* a meeting sits in a slot that follows a blackout slot of its day
C5_Witness ==
    \E i \in DOMAIN supplier_rows : \E s \in Range(SlotKeys(time_slots, supplier_rows[i].day)) :
        /\ SlotState(time_slots, supplier_rows[i].day, s) \in {"LUNCH", "BREAK"}
        /\ SlotIndex(time_slots, supplier_rows[i].day, s)
              < SlotIndex(time_slots, supplier_rows[i].day, supplier_rows[i].timeslot)

\* C6: the rep of every meeting is a member of the candidate list that resolve_request
\* returns for the request string that produced the meeting.
C6_RepFromCandidates ==
    /\ Len(row_request) = Len(supplier_rows)
    /\ \A i \in DOMAIN supplier_rows : supplier_rows[i].rep \in CandidateNames(row_request[i])

\* a meeting exists, and a request stayed unfulfilled while a rep outside its
\* candidate list was below cap and had a slot for the supplier
C6_Witness ==
    /\ JustLeftUnfulfilled
    /\ supplier_rows # <<>>
    /\ \E rep \in RepNames(reps_df) \ CandidateNames(LastLog.request) :
          /\ rep_meeting_count[rep] < max_meetings_rep
          /\ SearchNow(rep) # NoSlot

----------------------------------------------------------------------------
(* C7..C10: seeds, substitution, supplier order *)

TotalRequests == TotalLen(preferences, SupplierNames)

\* requests that produced no meeting, summed over all suppliers
Unfulfilled(rows) == TotalRequests - Len(rows)

PassOf(order) ==
    RunPass(suppliers_df, reps_df, preferences, max_meetings_rep, max_peak, max_acc,
            time_slots, order)

\* C7: the scheduler runs the assignment loop once per seed and returns a pass whose
\* unfulfilled count is the minimum over the seeds' passes: the returned pass never has
\* more unfulfilled requests than the pass of another seed, whatever slot order that
\* seed draws.
C7_NeverWorseThanAnotherSeed ==
    pc = "returned" =>
        \A order \in RandomTimeslotIndexes(reps_df, time_slots) :
            Unfulfilled(result.supplier_sched) <= Unfulfilled(PassOf(order).supplier_rows)

\* C8: when every candidate of a resolved request is at the per-rep cap or has no free
\* slot, a replacement rep of the substitution hierarchy who is below cap and has a
\* mutually free slot fulfils the request.
C8_ReplacementFulfils ==
    JustLeftUnfulfilled =>
        ~ \E c \in CandidateNames(LastLog.request) : \E r \in Replacements(c, reps_df) :
              /\ rep_meeting_count[r] < max_meetings_rep
              /\ SearchNow(r) # NoSlot

\* C9: when a candidate of a request is at cap or has no free slot and has no eligible
\* replacement, the request is left unfulfilled and the rep's name is recorded in the
\* supplier summary's substitution log under that request.
C9_RemovedRepLogged ==
    pc = "returned" =>
        \A e \in Range(iter_log) :
            e.outcome = "unassigned" =>
                \A c \in CandidateNames(e.request) :
                    Replacements(c, reps_df) = {} =>
                        c \in Range(Get(Substitutions(result.supplier_summary[e.supplier]),
                                        e.request, <<>>))

\* the specificity score in the words of the claim
ScoreOf(supplier) ==
    LET tiers == {resolve_request(preferences[supplier][i], reps_df).rtype :
                     i \in DOMAIN preferences[supplier]}
    IN IF "rep" \in tiers THEN 0
       ELSE IF "subcat" \in tiers THEN 1
       ELSE IF "category" \in tiers THEN 2
       ELSE 3

\* supplier a may not be processed after supplier b
Precedes(a, b) ==
    \/ TypeOf(a) = "Peak" /\ TypeOf(b) = "Accelerating"
    \/ TypeOf(a) = TypeOf(b) /\ ScoreOf(a) < ScoreOf(b)

InOrder(names) == \A i, j \in DOMAIN names : i < j => ~Precedes(names[j], names[i])

\* C10: every Peak supplier is processed, and all its meetings committed, before any
\* Accelerating supplier, and among suppliers of one type a supplier with a lower
\* specificity score is processed before one with a higher score.
C10_SupplierOrder ==
    /\ InOrder([i \in DOMAIN ordered_suppliers |-> ordered_suppliers[i].Supplier])
    /\ InOrder([i \in DOMAIN iter_log |-> iter_log[i].supplier])
    /\ InOrder([i \in DOMAIN supplier_rows |-> supplier_rows[i].supplier])
    /\ pc # "call" =>
          {ordered_suppliers[i].Supplier : i \in DOMAIN ordered_suppliers} = SupplierNames
    /\ pc \in {"supplier", "request"} =>
          /\ DOMAIN supplier_summary =
                {ordered_suppliers[i].Supplier :
                    i \in {k \in DOMAIN ordered_suppliers :
                              k < si \/ (k = si /\ pc = "request")}}
          /\ \A s \in SupplierNames \ DOMAIN supplier_summary :
                MeetingsOfSupplier(supplier_rows, s) = {}

\* the caller lists an Accelerating supplier with an exact-rep request before a Peak
\* supplier without one; both got meetings and the Peak supplier's came first
C10_Witness ==
    /\ pc = "returned"
    /\ TypeOf(suppliers_df[1].Supplier) = "Accelerating"
    /\ TypeOf(suppliers_df[2].Supplier) = "Peak"
    /\ ScoreOf(suppliers_df[1].Supplier) < ScoreOf(suppliers_df[2].Supplier)
    /\ MeetingsOfSupplier(supplier_rows, suppliers_df[1].Supplier) # {}
    /\ supplier_rows[1].supplier = suppliers_df[2].Supplier

----------------------------------------------------------------------------
(* C11: resolve_request *)

CountIn(rows, x) == Cardinality({i \in DOMAIN rows : rows[i] = x})

\* the same rows, each as often, in any order
SameRows(a, b) ==
    /\ Len(a) = Len(b)
    /\ \A x \in Range(a) \cup Range(b) : CountIn(a, x) = CountIn(b, x)

Ascending(rows, field) ==
    \A i, j \in DOMAIN rows : i < j => rows[i][field] <= rows[j][field]

RowsWith(reps, field, text) == SelectSeq(reps, LAMBDA r : r[field] = text)

\* the returned pair is what the three matches, tried in order on `text`, give
ResolvesAs(text) ==
    IF RowsWith(reps_df, "SalesRep", text) # <<>>
    THEN /\ result.rtype = "rep"
         /\ result.candidates = RowsWith(reps_df, "SalesRep", text)
    ELSE IF RowsWith(reps_df, "Subcategory", text) # <<>>
    THEN /\ result.rtype = "subcat"
         /\ SameRows(result.candidates, RowsWith(reps_df, "Subcategory", text))
         /\ Ascending(result.candidates, "SubcatRank")
    ELSE IF RowsWith(reps_df, "Category", text) # <<>>
    THEN /\ result.rtype = "category"
         /\ SameRows(result.candidates, RowsWith(reps_df, "Category", text))
         /\ Ascending(result.candidates, "CatRank")
    ELSE /\ result.rtype = "none"
         /\ result.candidates = <<>>

\* C11 as stated: resolve_request tries the three matches in order on the request
\* string and the first success wins: a string equal to a rep name gives the exact-rep
\* tier with exactly the reps of that name, otherwise a string equal to a sub-category
\* value gives the sub-category tier with candidates in ascending sub-category rank,
\* otherwise a string equal to a category value gives the category tier with candidates
\* in ascending category rank, otherwise the tier is unresolved and the list is empty.
C11_MatchesRequestAsGiven == pc = "resolved" => ResolvesAs(request_arg)

\* C11 amended: the three matches are tried in that order, first success wins, on the
\* request string with its leading and trailing white space removed.
C11_MatchesStrippedRequest == pc = "resolved" => ResolvesAs(Strip(request_arg))

\* a padded request whose text is a rep name, a sub-category and a category of the
\* table resolved to the reps of that name only
C11_Witness ==
    /\ pc = "resolved"
    /\ request_arg # Strip(request_arg)
    /\ RowsWith(reps_df, "Subcategory", Strip(request_arg)) # <<>>
    /\ RowsWith(reps_df, "Category", Strip(request_arg)) # <<>>
    /\ result.rtype = "rep"
    /\ Len(result.candidates) < Len(reps_df)

----------------------------------------------------------------------------
(* C12, C13: unresolvable requests and caps that are not positive *)

PositiveCaps == max_meetings_rep > 0 /\ max_peak > 0 /\ max_acc > 0

Unresolvable(text) == resolve_request(text, reps_df).rtype = "none"

\* the (supplier, request string) pairs of the preferences that match nothing
UnresolvableRequests ==
    {<<s, t>> \in SupplierNames \X RequestStrings :
        t \in Range(preferences[s]) /\ Unresolvable(t)}

\* C12: a request string that matches no rep name, sub-category or category never
\* raises an error and never produces a meeting: with positive caps, also when every
\* request of every supplier is unresolvable, the pass completes and returns a result
\* in which the request is in the supplier's requested list and not in its fulfilled
\* set.
C12_UnresolvableNeverRaises ==
    (PositiveCaps /\ UnresolvableRequests # {}) =>
        /\ pc # "raised"
        /\ \A i \in DOMAIN row_request : ~Unresolvable(row_request[i])
        /\ pc = "returned" =>
              \A p \in UnresolvableRequests :
                  /\ p[2] \in Range(result.supplier_summary[p[1]].requested)
                  /\ p[2] \notin Range(result.supplier_summary[p[1]].fulfilled)

\* C13: when the per-rep cap, the Peak cap or the Accelerating cap is zero or negative,
\* the run is rejected with a configuration error before any supplier is processed,
\* instead of running the pass and producing an empty schedule.
C13_NonPositiveCapsRejected ==
    ~PositiveCaps =>
        /\ supplier_summary = EmptyMap
        /\ iter_log = <<>>
        /\ result.kind # "returned"
        /\ pc = "raised" => result.error = "ConfigurationError"

----------------------------------------------------------------------------
(* C14: two passes side by side *)

\* a result with each fulfilled list read as the set it was built from
AsSets(res) ==
    IF res.kind # "returned" THEN res
    ELSE [kind |-> res.kind, supplier_sched |-> res.supplier_sched,
          rep_sched |-> res.rep_sched,
          supplier_summary |->
              [s \in DOMAIN res.supplier_summary |->
                  [requested |-> res.supplier_summary[s].requested,
                   fulfilled |-> Range(res.supplier_summary[s].fulfilled),
                   category_counts |-> res.supplier_summary[s].category_counts]]]

\* what the pass with the random slot order `order` gives when it runs alone
AloneResult(order) == ReturnValue(PassOf(order))

Finished(f) == f.pc \in {"returned", "raised"}

----------------------------------------------------------------------------
(* C15: two suppliers and one rep *)

\* the request strings that resolve to a single exact-rep candidate
SoleRepRequests ==
    {t \in RequestStrings :
        /\ resolve_request(t, reps_df).rtype = "rep"
        /\ Len(resolve_request(t, reps_df).candidates) = 1}

SoleRep(t) == resolve_request(t, reps_df).candidates[1].SalesRep

\* both suppliers are Peak and both list the request string
BothPeakList(t) ==
    \A s \in SupplierNames : TypeOf(s) = "Peak" /\ t \in Range(preferences[s])

\* the suppliers that hold a meeting with the rep
Holders(rep) == {supplier_rows[i].supplier : i \in MeetingsOfRep(supplier_rows, rep)}

FirstProcessed == ordered_suppliers[1].Supplier

\* the rep can take one meeting in the pass
OneMeetingOnly == max_meetings_rep = 1 \/ Cardinality(OpenSlots(time_slots)) = 1

\* C15 as stated: when two Peak suppliers both list the same request string that
\* resolves to a single exact-rep candidate, exactly one of the two obtains a meeting
\* with that rep in a pass, and it is the supplier processed earlier.
C15_ExactlyOneAndEarlier ==
    (pc = "returned" /\ PositiveCaps) =>
        \A t \in SoleRepRequests :
            BothPeakList(t) => Holders(SoleRep(t)) = {FirstProcessed}

\* C15 amended: when two Peak suppliers both list the same request string that
\* resolves to a single exact-rep candidate and the rep can take one meeting only in
\* the pass (the per-rep cap is 1 or the calendar has one open slot), at most one of
\* the two obtains a meeting with that rep; with positive caps it is the one processed
\* earlier when the request is first in that supplier's list and the rep has no
\* meeting yet when it is processed (of two suppliers, the one processed first).
C15_OneWhenScarce ==
    \A t \in SoleRepRequests :
        (BothPeakList(t) /\ OneMeetingOnly) =>
            /\ Cardinality(Holders(SoleRep(t))) <= 1
            /\ (pc = "returned" /\ PositiveCaps /\ preferences[FirstProcessed][1] = t) =>
                   Holders(SoleRep(t)) = {FirstProcessed}

\* the rep's one meeting went to the supplier processed first and the other supplier's
\* request for the rep was processed and left without a meeting
C15_Witness ==
    /\ pc = "returned"
    /\ PositiveCaps
    /\ OneMeetingOnly
    /\ \E t \in SoleRepRequests :
          /\ BothPeakList(t)
          /\ preferences[FirstProcessed][1] = t
          /\ Holders(SoleRep(t)) = {FirstProcessed}
          /\ \E e \in Range(iter_log) :
                e.supplier # FirstProcessed /\ e.request = t /\ e.outcome = "unassigned"

----------------------------------------------------------------------------
(* C16: the summary holds every supplier *)

\* C16: after a completed pass every supplier of the supplier list has an entry in the
\* supplier summary, also a supplier that obtained no meeting and a supplier whose
\* requests are all unresolved: the list of suppliers absent from the summary is empty.
C16_EverySupplierInSummary ==
    pc = "returned" =>
        /\ MissingSuppliers(suppliers_df, result.supplier_summary) = <<>>
        /\ \A s \in SupplierNames :
              result.supplier_summary[s].requested = preferences[s]

\* a pass returned with a supplier that listed only unresolvable requests and got no
\* meeting
C16_Witness ==
    /\ pc = "returned"
    /\ \E s \in SupplierNames :
          /\ preferences[s] # <<>>
          /\ \A i \in DOMAIN preferences[s] : Unresolvable(preferences[s][i])
          /\ MeetingsOfSupplier(result.supplier_sched, s) = {}
          /\ s \in DOMAIN result.supplier_summary

----------------------------------------------------------------------------
(* C17, C18: the slot search and the candidate loop *)

\* the calendar slots that are open, free for the rep and unused by the supplier
UsableSlots(supplier, rep) ==
    {x \in OpenSlots(time_slots) :
        /\ rep_avail[rep][x[1]][x[2]]
        /\ \A i \in MeetingsOfSupplier(supplier_rows, supplier) :
              <<supplier_rows[i].day, supplier_rows[i].timeslot>> # x}

AssignedLog == SelectSeq(iter_log, LAMBDA e : e.outcome = "assigned")

\* C17: the slot search for a supplier/rep pair fails only if no calendar slot is at
\* once open, free for the rep and unused by the supplier, and what it finds is such a
\* slot; whenever a resolved request of a supplier below its cap has a candidate who
\* is below the per-rep cap and has such a slot, exactly one meeting is created for the
\* request and the request string appears in the supplier's fulfilled set.
C17_SearchCompleteAndCommitted ==
    /\ pc = "request" =>
          \A rep \in RepNames(reps_df) :
              IF UsableSlots(CurrentSupplier.Supplier, rep) = {}
              THEN SearchNow(rep) = NoSlot
              ELSE <<SearchNow(rep).day, SearchNow(rep).slot>>
                       \in UsableSlots(CurrentSupplier.Supplier, rep)
    /\ JustLeftUnfulfilled =>
          \A rep \in CandidateNames(LastLog.request) :
              \/ rep_meeting_count[rep] >= max_meetings_rep
              \/ UsableSlots(CurrentSupplier.Supplier, rep) = {}
    /\ \A e \in Range(iter_log) : e.outcome = "unresolved" => Unresolvable(e.request)
    /\ Len(AssignedLog) = Len(supplier_rows)
    /\ \A k \in DOMAIN AssignedLog :
          /\ supplier_rows[k].supplier = AssignedLog[k].supplier
          /\ row_request[k] = AssignedLog[k].request
          /\ AssignedLog[k].request
                 \in Range(supplier_summary[AssignedLog[k].supplier].fulfilled)

\* a meeting was just committed in a slot that is not the first of the rep's random
\* order of that day: the search passed over a slot and went on
C17_Witness ==
    /\ pc = "request"
    /\ iter_log # <<>>
    /\ LastLog.outcome = "assigned"
    /\ LET row == supplier_rows[Len(supplier_rows)]
       IN /\ rep_timeslot_order[row.rep][row.day][1] # row.timeslot
          /\ LastLog.request \in Range(supplier_summary[row.supplier].fulfilled)

\* the positions of the current request's candidate list whose rep is below the
\* per-rep cap and has a slot that is open, free for the rep and unused by the supplier
EligibleNow ==
    LET cands == resolve_request(CurrentRequests[ri], reps_df).candidates
    IN {i \in DOMAIN cands :
          /\ rep_meeting_count[cands[i].SalesRep] < max_meetings_rep
          /\ UsableSlots(CurrentSupplier.Supplier, cands[i].SalesRep) # {}}

\* C18: for every fulfilled request the assigned rep is the first rep of the request's
\* rank-ordered candidate list who, when the request was processed, was below the
\* per-rep cap and had a slot open, free for the rep and unused by the supplier: every
\* candidate ranked before was at cap or had no such slot, and no candidate after the
\* assigned rep is tried (one meeting is added and no other rep's state changes).
C18_FirstEligibleCandidate ==
    [][Len(supplier_rows') > Len(supplier_rows) =>
          LET cands == resolve_request(CurrentRequests[ri], reps_df).candidates
              row == supplier_rows'[Len(supplier_rows')]
          IN /\ EligibleNow # {}
             /\ \E i \in EligibleNow :
                   /\ \A j \in EligibleNow : i <= j
                   /\ row.rep = cands[i].SalesRep
             /\ Len(supplier_rows') = Len(supplier_rows) + 1
             /\ \A r \in RepNames(reps_df) \ {row.rep} :
                   /\ rep_avail'[r] = rep_avail[r]
                   /\ rep_meeting_count'[r] = rep_meeting_count[r]]_vars

\* a meeting went to a rep who is not the first of its request's candidate list
C18_Witness ==
    \E k \in DOMAIN supplier_rows :
        /\ Len(resolve_request(row_request[k], reps_df).candidates) > 1
        /\ resolve_request(row_request[k], reps_df).candidates[1].SalesRep
              # supplier_rows[k].rep

----------------------------------------------------------------------------
(* C19, C20: the bookkeeping of a pass *)

BusySlots(rep) == {x \in OpenSlots(time_slots) : ~rep_avail[rep][x[1]][x[2]]}

SlotsOfRep(rows, rep) == {<<rows[i].day, rows[i].timeslot>> : i \in MeetingsOfRep(rows, rep)}

MeetingFields == {"supplier", "booth", "day", "timeslot", "rep", "category"}

\* C19: in every state between two request iterations, for every rep the open
\* (day, slot) pairs marked not free in the availability map are exactly the
\* (day, slot) pairs of the meetings of that rep, the rep's counter is the number of
\* those meetings, each supplier's counter is the number of its meetings, and the
\* supplier-indexed and rep-indexed meeting lists hold the same meetings.
C19_CommitIsAtomic ==
    pc \in {"supplier", "request", "returned", "raised"} =>
        /\ \A rep \in RepNames(reps_df) :
              /\ BusySlots(rep) = SlotsOfRep(supplier_rows, rep)
              /\ rep_meeting_count[rep] = Cardinality(MeetingsOfRep(supplier_rows, rep))
              /\ rep_meeting_count[rep] = Cardinality(SlotsOfRep(supplier_rows, rep))
        /\ \A s \in SupplierNames :
              Get(supplier_meeting_count, s, 0)
                  = Cardinality(MeetingsOfSupplier(supplier_rows, s))
        /\ Len(rep_rows) = Len(supplier_rows)
        /\ \A k \in DOMAIN supplier_rows : \A f \in MeetingFields :
              rep_rows[k][f] = supplier_rows[k][f]

\* in the middle of a request loop a rep holds two meetings and a supplier holds two
C19_Witness ==
    /\ pc = "request"
    /\ \E rep \in RepNames(reps_df) : Cardinality(BusySlots(rep)) = 2
    /\ \E s \in DOMAIN supplier_meeting_count : supplier_meeting_count[s] = 2

\* the meetings of a supplier that a request string produced
ProducedBy(supplier, text) ==
    {k \in MeetingsOfSupplier(supplier_rows, supplier) : row_request[k] = text}

Occurrences(list, text) == Cardinality({i \in DOMAIN list : list[i] = text})

RECURSIVE SumOf(_, _)
SumOf(counts, keys) ==
    IF keys = {} THEN 0
    ELSE LET k == CHOOSE x \in keys : TRUE IN counts[k] + SumOf(counts, keys \ {k})

\* C20: in the result of a pass, for every supplier, the fulfilled set is a subset of
\* the requested list and holds a request string exactly when a meeting of the
\* supplier was produced by that string; the category count of a string is the number
\* of the supplier's meetings it produced; the counts add up to the supplier's number
\* of meetings, which is at most the length of its request list, each listed request
\* producing at most one meeting.
C20_SummaryMatchesMeetings ==
    pc = "returned" =>
        \A s \in SupplierNames :
            LET summary == result.supplier_summary[s]
                counts == summary.category_counts
            IN /\ Range(summary.fulfilled) \subseteq Range(summary.requested)
               /\ Cardinality(Range(summary.fulfilled)) = Len(summary.fulfilled)
               /\ DOMAIN counts = Range(summary.fulfilled)
               /\ \A t \in RequestStrings :
                     /\ t \in Range(summary.fulfilled) <=> ProducedBy(s, t) # {}
                     /\ t \in DOMAIN counts => counts[t] = Cardinality(ProducedBy(s, t))
                     /\ Cardinality(ProducedBy(s, t)) <= Occurrences(summary.requested, t)
               /\ SumOf(counts, DOMAIN counts)
                     = Cardinality(MeetingsOfSupplier(result.supplier_sched, s))
               /\ Cardinality(MeetingsOfSupplier(result.supplier_sched, s))
                     <= Len(summary.requested)

\* a supplier listed one string twice and both listings produced a meeting: the
\* string is once in fulfilled and its count is two
C20_Witness ==
    /\ pc = "returned"
    /\ \E s \in SupplierNames : \E t \in RequestStrings :
          /\ Occurrences(preferences[s], t) = 2
          /\ result.supplier_summary[s].fulfilled = <<t>>
          /\ result.supplier_summary[s].category_counts[t] = 2

----------------------------------------------------------------------------
(* C21: the order of the slot search *)

\* the day visited k-th (k = 0, 1, ...) by the supplier at 0-based position pos
VisitedDay(pos, k) == DayKeys(time_slots)[((pos + k) % Len(time_slots)) + 1]

\* the visits of the rotation on whose day the rep has a usable slot
GoodVisits(pos, supplier, rep) ==
    {k \in 0..(Len(time_slots) - 1) :
        \E x \in UsableSlots(supplier, rep) : x[1] = VisitedDay(pos, k)}

\* the slot the search must return: first day of the rotation with a usable slot,
\* first usable slot of that day in the rep's random order
ExpectedSlot(pos, supplier, rep) ==
    IF GoodVisits(pos, supplier, rep) = {} THEN NoSlot
    ELSE LET k == CHOOSE a \in GoodVisits(pos, supplier, rep) :
                      \A b \in GoodVisits(pos, supplier, rep) : a <= b
             day == VisitedDay(pos, k)
             order == rep_timeslot_order[rep][day]
             good == {i \in DOMAIN order : <<day, order[i]>> \in UsableSlots(supplier, rep)}
         IN [day |-> day, slot |-> order[CHOOSE i \in good : \A j \in good : i <= j]]

\* C21: the slot search for the supplier at position i of the processing order (the
\* first supplier at position 0) visits the days in calendar order rotated to start
\* at day index i mod the number of days and returns a slot of the first day of the
\* rotation that has a slot open, free for the rep and unused by the supplier, the
\* first such slot of that day in the rep's per-day random order; that order is drawn
\* once per pass and does not change during the pass.
C21_RotatedDayOrder ==
    [][/\ pc = "request" =>
              \A rep \in RepNames(reps_df) :
                  SearchNow(rep) = ExpectedSlot(si - 1, CurrentSupplier.Supplier, rep)
       /\ pc # "call" => rep_timeslot_order' = rep_timeslot_order
       /\ pc = "call" =>
              \A rep \in RepNames(reps_df) : \A d \in Range(DayKeys(time_slots)) :
                  /\ Len(rep_timeslot_order'[rep][d])
                        = Cardinality({x \in OpenSlots(time_slots) : x[1] = d})
                  /\ \A x \in OpenSlots(time_slots) :
                        x[1] = d => x[2] \in Range(rep_timeslot_order'[rep][d])]_vars

\* the second supplier of the order just got a meeting on the second day although
\* the rep still has a usable slot for it on the first day
C21_Witness ==
    /\ pc = "request"
    /\ Len(time_slots) >= 2
    /\ si = 2
    /\ iter_log # <<>>
    /\ LastLog.outcome = "assigned"
    /\ LastLog.supplier = CurrentSupplier.Supplier
    /\ LET row == supplier_rows[Len(supplier_rows)]
       IN /\ row.day = DayKeys(time_slots)[2]
          /\ \E x \in UsableSlots(row.supplier, row.rep) : x[1] = DayKeys(time_slots)[1]

----------------------------------------------------------------------------
(* C22: the category label *)

\* the record of a rep in the rep table
RecordOf(rep) == CHOOSE r \in Range(reps_df) : r.SalesRep = rep

TierOf(k) == resolve_request(row_request[k], reps_df).rtype

\* C22: the category label of every committed meeting is the assigned rep's category
\* field when the request resolved to the exact-rep or category tier and the assigned
\* rep's sub-category field when it resolved to the sub-category tier, read from the
\* record of the rep who was assigned.
C22_LabelFromAssignedRep ==
    \A k \in DOMAIN supplier_rows :
        /\ TierOf(k) \in {"rep", "category"} =>
               supplier_rows[k].category = RecordOf(supplier_rows[k].rep).Category
        /\ TierOf(k) = "subcat" =>
               supplier_rows[k].category = RecordOf(supplier_rows[k].rep).Subcategory
        /\ TierOf(k) # "none"
        /\ rep_rows[k].category = supplier_rows[k].category

\* one meeting came from a sub-category request and carries the rep's sub-category,
\* which is not the rep's category, and another came from a name or category request
C22_Witness ==
    /\ \E k \in DOMAIN supplier_rows :
          /\ TierOf(k) = "subcat"
          /\ supplier_rows[k].category = RecordOf(supplier_rows[k].rep).Subcategory
          /\ supplier_rows[k].category # RecordOf(supplier_rows[k].rep).Category
    /\ \E k \in DOMAIN supplier_rows : TierOf(k) \in {"rep", "category"}

----------------------------------------------------------------------------
(* C23: a pass is a function of its inputs and of its random draw *)

----------------------------------------------------------------------------
(* C24: what a pass leaves alone *)

\* the list `later` is the list `earlier` with entries added at its end
Extends(later, earlier) ==
    /\ Len(later) >= Len(earlier)
    /\ \A k \in DOMAIN earlier : later[k] = earlier[k]

\* C24: run_scheduler does not modify the rep list, the caller's supplier list or the
\* preference lists, and a meeting once created is never changed or removed for the
\* rest of the pass: the meeting lists only grow and a slot marked busy is never freed.
C24_InputsAndMeetingsKept ==
    [][/\ reps_df' = reps_df
       /\ suppliers_df' = suppliers_df
       /\ preferences' = preferences
       /\ Extends(supplier_rows', supplier_rows)
       /\ Extends(rep_rows', rep_rows)
       /\ pc # "call" =>
              \A rep \in RepNames(reps_df) : \A x \in OpenSlots(time_slots) :
                  ~rep_avail[rep][x[1]][x[2]] => ~rep_avail'[rep][x[1]][x[2]]]_vars

\* a pass returned two meetings; the sorted copy of the supplier list carries the
\* Specificity column and the caller's list does not
C24_Witness ==
    /\ pc = "returned"
    /\ Len(supplier_rows) >= 2
    /\ \A i \in DOMAIN ordered_suppliers : "Specificity" \in DOMAIN ordered_suppliers[i]
    /\ \A i \in DOMAIN suppliers_df : "Specificity" \notin DOMAIN suppliers_df[i]
    /\ \E s \in SupplierNames : result.supplier_summary[s].requested = preferences[s]

====
